---- MODULE Spec2Model ----
(***************************************************************************)
(* A model of the logrus-backed logging facade of src/logrus.go: the      *)
(* Logger (lLog), the Entry builder (lEntry), the level mapping (ltolr)   *)
(* and the part of the logrus backend the facade drives (field maps,      *)
(* the enabled-level comparison, Logln).                                   *)
(***************************************************************************)
EXTENDS Integers, Sequences, FiniteSets, TLC

VARIABLES
    minLevel,     \* the facade Level given to newLogrus
    loggerLevel,  \* the backend's threshold: logrus.Logger.Level
    loggers,      \* the lLog values built so far; loggers[1] is the root
    entries,      \* the lEntry objects built so far
    handed,       \* the records passed to the backend's Logln, in order
    output,       \* the records the backend emitted to the io.Writer, in order
    procState,    \* "running", "exited" (os.Exit) or "panicked" (unrecovered panic)
    exitCode,     \* the process's exit status once it has ended
    clock,        \* the wall clock time.Now() reads
    nAdds,        \* Add* calls made so far
    last          \* the call made last

vars == <<minLevel, loggerLevel, loggers, entries, handed, output,
          procState, exitCode, clock, nAdds, last>>

----------------------------------------------------------------------------
(* Bounds of the model *)

MaxLoggers == 3
MaxEntries == 1
MaxAdds == 2
MaxFlush == 2
MaxClock == 1

----------------------------------------------------------------------------
(* The facade's Level enumeration, in the order Debug < ... < Panic *)

DebugLevel == 0
InfoLevel == 1
WarnLevel == 2
ErrorLevel == 3
FatalLevel == 4
PanicLevel == 5

Levels == {DebugLevel, InfoLevel, WarnLevel, ErrorLevel, FatalLevel, PanicLevel}

\* Level values a caller can pass to Logger.Level: the six and one outside them
LevelInputs == Levels \cup {PanicLevel + 1}

(* The backend's severities: logrus orders them the other way round *)

logrus_PanicLevel == 0
logrus_FatalLevel == 1
logrus_ErrorLevel == 2
logrus_WarnLevel == 3
logrus_InfoLevel == 4
logrus_DebugLevel == 5

\* the outcome of ltolr's panic on an unmapped level
NoLevel == -1

----------------------------------------------------------------------------
(* Values *)

StrVal(s) == <<"string", s>>
BoolVal(b) == <<"bool", b>>
IntVal(i) == <<"int", i>>
TimeVal(t) == <<"time", t>>
DurVal(d) == <<"duration", d>>
NilVal == <<"nil", "nil">>

EmptyMap == [k \in {} |-> NilVal]

\* error values: the nil error, an error without trace whose text is empty,
\* and an error carrying a trace
NilErr == [isNil |-> TRUE, msg |-> "", stack |-> ""]
Errs == { NilErr,
          [isNil |-> FALSE, msg |-> "", stack |-> ""],
          [isNil |-> FALSE, msg |-> "boom", stack |-> "a.go:1: boom"] }

\* errors.ErrorStack of juju/errors: total, "" for nil
ErrorStack(err) == IF err.isNil THEN "" ELSE err.stack

Keys == {"k", "time"}
ErrKeys == {"err", "k"}
LoggerKeys == {"svc", "k"}
LoggerVals == {"x"}
Msgs == {"started", "again"}
Strs == {"a", "b"}

\* map[string]interface{} arguments of AddFields: nil, empty and two keys
FieldMaps == { [isNil |-> TRUE, m |-> EmptyMap],
               [isNil |-> FALSE, m |-> EmptyMap],
               [isNil |-> FALSE,
                m |-> [k \in {"k", "n"} |-> IF k = "k" THEN StrVal("b") ELSE IntVal(5)]] }

----------------------------------------------------------------------------
(* The backend: logrus *)

\* Entry.WithFields: a new field map, the given fields over a copy of the old
logrus_WithFields(data, fs) ==
    [k \in DOMAIN data \cup DOMAIN fs |-> IF k \in DOMAIN fs THEN fs[k] ELSE data[k]]

\* Entry.WithField(key, value) is WithFields(Fields{key: value})
logrus_WithField(data, key, value) ==
    logrus_WithFields(data, [k \in {key} |-> value])

\* Logger.IsLevelEnabled
logrus_IsLevelEnabled(lvl, level) == lvl >= level

----------------------------------------------------------------------------
(* ltolr and newLogrus *)

\* ltolr with the Warn and Error arms exchanged
ltolr_swapped(level) ==
    CASE level = DebugLevel -> logrus_DebugLevel
      [] level = InfoLevel -> logrus_InfoLevel
      [] level = WarnLevel -> logrus_ErrorLevel
      [] level = ErrorLevel -> logrus_WarnLevel
      [] level = FatalLevel -> logrus_FatalLevel
      [] level = PanicLevel -> logrus_PanicLevel
      [] OTHER -> NoLevel

ltolr(level) ==
    CASE level = DebugLevel -> logrus_DebugLevel
      [] level = InfoLevel -> logrus_InfoLevel
      [] level = WarnLevel -> logrus_WarnLevel
      [] level = ErrorLevel -> logrus_ErrorLevel
      [] level = FatalLevel -> logrus_FatalLevel
      [] level = PanicLevel -> logrus_PanicLevel
      [] OTHER -> NoLevel

\* the root lLog: a writer without fields
RootLog == [writer |-> EmptyMap, parent |-> 0, key |-> "", value |-> ""]

newLogrus(lvl) ==
    /\ minLevel = lvl
    /\ loggerLevel = ltolr(lvl)
    /\ loggers = <<RootLog>>

Init ==
    /\ \E lvl \in Levels : newLogrus(lvl)
    /\ entries = <<>>
    /\ handed = <<>>
    /\ output = <<>>
    /\ procState = "running"
    /\ exitCode = 0
    /\ clock = 0
    /\ nAdds = 0
    /\ last = [op |-> "NewLogger", id |-> 1, arg |-> minLevel, aborted |-> FALSE]

Running == procState = "running"

Called(op, id, arg) == last' = [op |-> op, id |-> id, arg |-> arg, aborted |-> FALSE]

----------------------------------------------------------------------------
(* lLog *)

\* the lLog WithField returns; parent, key and value record its derivation
lLog_WithField(l, key, value) ==
    [writer |-> logrus_WithField(loggers[l].writer, key, StrVal(value)),
     parent |-> l, key |-> key, value |-> value]

\* WithField attaching the field to the receiver's own writer as well
WithField_inPlace(l, key, value) ==
    /\ Running
    /\ Len(loggers) < MaxLoggers
    /\ loggers' = Append([loggers EXCEPT ![l].writer =
                              logrus_WithField(@, key, StrVal(value))],
                         lLog_WithField(l, key, value))
    /\ Called("WithField", l, 0)
    /\ UNCHANGED <<minLevel, loggerLevel, entries, handed, output,
                   procState, exitCode, clock, nAdds>>

WithField(l, key, value) ==
    /\ Running
    /\ Len(loggers) < MaxLoggers
    /\ loggers' = Append(loggers, lLog_WithField(l, key, value))
    /\ Called("WithField", l, 0)
    /\ UNCHANGED <<minLevel, loggerLevel, entries, handed, output,
                   procState, exitCode, clock, nAdds>>

\* &lEntry{level, entry}; ctor, from, t0 and calls record how it came about
lEntry(level, entry, ctor, l) ==
    [level |-> level, entry |-> entry, ctor |-> ctor, from |-> l,
     t0 |-> clock, calls |-> <<>>]

lLog_Debug(l) ==
    lEntry(logrus_DebugLevel,
           logrus_WithField(loggers[l].writer, "time", TimeVal(clock)), "Debug", l)

\* Info building its Entry on a writer without the Logger's fields
lLog_Info_noFields(l) ==
    lEntry(logrus_InfoLevel,
           logrus_WithField(EmptyMap, "time", TimeVal(clock)), "Info", l)

lLog_Info(l) ==
    lEntry(logrus_InfoLevel,
           logrus_WithField(loggers[l].writer, "time", TimeVal(clock)), "Info", l)

lLog_Warn(l) ==
    lEntry(logrus_WarnLevel,
           logrus_WithField(loggers[l].writer, "time", TimeVal(clock)), "Warn", l)

lLog_Error(l) ==
    lEntry(logrus_ErrorLevel,
           logrus_WithField(loggers[l].writer, "time", TimeVal(clock)), "Error", l)

lLog_Fatal(l) ==
    lEntry(logrus_FatalLevel,
           logrus_WithField(loggers[l].writer, "time", TimeVal(clock)), "Fatal", l)

lLog_Panic(l) ==
    lEntry(logrus_PanicLevel,
           logrus_WithField(loggers[l].writer, "time", TimeVal(clock)), "Panic", l)

\* Level falling back to Debug for a value outside the six
lLog_Level_defaultDebug(l, lvl) ==
    CASE lvl = DebugLevel -> lLog_Debug(l)
      [] lvl = InfoLevel -> lLog_Info(l)
      [] lvl = WarnLevel -> lLog_Warn(l)
      [] lvl = ErrorLevel -> lLog_Error(l)
      [] lvl = FatalLevel -> lLog_Fatal(l)
      [] lvl = PanicLevel -> lLog_Panic(l)
      [] OTHER -> lLog_Debug(l)

lLog_Level(l, lvl) ==
    CASE lvl = DebugLevel -> lLog_Debug(l)
      [] lvl = InfoLevel -> lLog_Info(l)
      [] lvl = WarnLevel -> lLog_Warn(l)
      [] lvl = ErrorLevel -> lLog_Error(l)
      [] lvl = FatalLevel -> lLog_Fatal(l)
      [] lvl = PanicLevel -> lLog_Panic(l)
      [] OTHER -> lLog_Info(l)

\* the caller receives the Entry the call built
Returned(ev, via, req) ==
    /\ Running
    /\ Len(entries) < MaxEntries
    /\ entries' = Append(entries,
                         [level |-> ev.level, entry |-> ev.entry, ctor |-> ev.ctor,
                          from |-> ev.from, t0 |-> ev.t0, calls |-> ev.calls])
    /\ Called(via, Len(entries) + 1, req)
    /\ UNCHANGED <<minLevel, loggerLevel, loggers, handed, output,
                   procState, exitCode, clock, nAdds>>

Level(l, lvl) == Returned(lLog_Level(l, lvl), "Level", lvl)
Debug(l) == Returned(lLog_Debug(l), "Debug", DebugLevel)
Info(l) == Returned(lLog_Info(l), "Info", InfoLevel)
Warn(l) == Returned(lLog_Warn(l), "Warn", WarnLevel)
Error(l) == Returned(lLog_Error(l), "Error", ErrorLevel)
Fatal(l) == Returned(lLog_Fatal(l), "Fatal", FatalLevel)
Panic(l) == Returned(lLog_Panic(l), "Panic", PanicLevel)

----------------------------------------------------------------------------
(* lEntry *)

\* a call that panics before it changes the Entry; the caller recovers or
\* the process ends with the runtime's status 2
Aborted(op, e) ==
    /\ Running
    /\ nAdds < MaxAdds
    /\ nAdds' = nAdds + 1
    /\ last' = [op |-> op, id |-> e, arg |-> 0, aborted |-> TRUE]
    /\ \E recovered \in BOOLEAN :
          /\ procState' = IF recovered THEN "running" ELSE "panicked"
          /\ exitCode' = IF recovered THEN exitCode ELSE 2
    /\ UNCHANGED <<minLevel, loggerLevel, loggers, entries, handed, output, clock>>

\* l.entry = <data>; return l
Attached(op, e, key, arg, data) ==
    /\ Running
    /\ nAdds < MaxAdds
    /\ nAdds' = nAdds + 1
    /\ entries' = [entries EXCEPT
                     ![e].entry = data,
                     ![e].calls = Append(@, [op |-> op, key |-> key, arg |-> arg])]
    /\ Called(op, e, 0)
    /\ UNCHANGED <<minLevel, loggerLevel, loggers, handed, output,
                   procState, exitCode, clock>>

AddFields(e, fs) ==
    Attached("AddFields", e, "", <<"fields", fs>>,
             logrus_WithFields(entries[e].entry, fs.m))

\* AddErr leaving "err_stack" out when the stack text is empty
lEntry_AddErr_omitEmptyStack(data, err) ==
    IF ErrorStack(err) = ""
    THEN logrus_WithField(data, "err", StrVal(err.msg))
    ELSE logrus_WithField(logrus_WithField(data, "err", StrVal(err.msg)),
                          "err_stack", StrVal(ErrorStack(err)))

\* the field map AddErr leaves in l.entry, for a non-nil err
lEntry_AddErr(data, err) ==
    logrus_WithField(logrus_WithField(data, "err", StrVal(err.msg)),
                     "err_stack", StrVal(ErrorStack(err)))

AddErr(e, err) ==
    IF err.isNil
    THEN Aborted("AddErr", e)
    ELSE Attached("AddErr", e, "err", <<"error", err>>,
                  lEntry_AddErr(entries[e].entry, err))

\* the field map AddError leaves in l.entry, for a non-nil val
lEntry_AddError(data, key, val) ==
    logrus_WithField(logrus_WithField(data, key, StrVal(val.msg)),
                     key \o "_stack", StrVal(ErrorStack(val)))

AddError(e, key, val) ==
    IF val.isNil
    THEN Aborted("AddError", e)
    ELSE Attached("AddError", e, key, <<"error", val>>,
                  lEntry_AddError(entries[e].entry, key, val))

AddBool(e, key, val) ==
    Attached("AddBool", e, key, BoolVal(val),
             logrus_WithField(entries[e].entry, key, BoolVal(val)))

AddInt(e, key, val) ==
    Attached("AddInt", e, key, IntVal(val),
             logrus_WithField(entries[e].entry, key, IntVal(val)))

\* AddStr keeping the value a key already has
AddStr_keepFirst(e, key, val) ==
    Attached("AddStr", e, key, StrVal(val),
             IF key \in DOMAIN entries[e].entry
             THEN entries[e].entry
             ELSE logrus_WithField(entries[e].entry, key, StrVal(val)))

AddStr(e, key, val) ==
    Attached("AddStr", e, key, StrVal(val),
             logrus_WithField(entries[e].entry, key, StrVal(val)))

AddTime(e, key, val) ==
    Attached("AddTime", e, key, TimeVal(val),
             logrus_WithField(entries[e].entry, key, TimeVal(val)))

AddDur(e, key, val) ==
    Attached("AddDur", e, key, DurVal(val),
             logrus_WithField(entries[e].entry, key, DurVal(val)))

AddAny(e, key, val) ==
    Attached("AddAny", e, key, val,
             logrus_WithField(entries[e].entry, key, val))

\* the record Entry.Logln(level, msg) is called with
Record(e, msg) ==
    [e |-> e, level |-> entries[e].level, msg |-> msg,
     data |-> entries[e].entry, at |-> clock]

\* Flush testing for Fatal and exiting before it calls Logln
Flush_exitFirst(e, msg) ==
    /\ Running
    /\ Len(handed) < MaxFlush
    /\ Called("Flush", e, msg)
    /\ IF entries[e].level = logrus_FatalLevel
       THEN /\ procState' = "exited"
            /\ exitCode' = 1
            /\ UNCHANGED <<handed, output>>
       ELSE /\ handed' = Append(handed, Record(e, msg))
            /\ IF logrus_IsLevelEnabled(loggerLevel, entries[e].level)
               THEN /\ output' = Append(output, Record(e, msg))
                    /\ IF entries[e].level <= logrus_PanicLevel
                       THEN \E recovered \in BOOLEAN :
                               /\ procState' = IF recovered THEN "running" ELSE "panicked"
                               /\ exitCode' = IF recovered THEN exitCode ELSE 2
                       ELSE UNCHANGED <<procState, exitCode>>
               ELSE UNCHANGED <<output, procState, exitCode>>
    /\ UNCHANGED <<minLevel, loggerLevel, loggers, entries, clock, nAdds>>

\* Logln writes when the level is enabled and then panics at Panic level;
\* os.Exit(1) follows the call for a Fatal Entry
Flush(e, msg) ==
    /\ Running
    /\ Len(handed) < MaxFlush
    /\ handed' = Append(handed, Record(e, msg))
    /\ Called("Flush", e, msg)
    /\ IF logrus_IsLevelEnabled(loggerLevel, entries[e].level)
       THEN /\ output' = Append(output, Record(e, msg))
            /\ IF entries[e].level <= logrus_PanicLevel
               THEN \E recovered \in BOOLEAN :
                       /\ procState' = IF recovered THEN "running" ELSE "panicked"
                       /\ exitCode' = IF recovered THEN exitCode ELSE 2
               ELSE IF entries[e].level = logrus_FatalLevel
                    THEN procState' = "exited" /\ exitCode' = 1
                    ELSE UNCHANGED <<procState, exitCode>>
       ELSE /\ output' = output
            /\ IF entries[e].level = logrus_FatalLevel
               THEN procState' = "exited" /\ exitCode' = 1
               ELSE UNCHANGED <<procState, exitCode>>
    /\ UNCHANGED <<minLevel, loggerLevel, loggers, entries, clock, nAdds>>

\* the wall clock advances
Tick ==
    /\ Running
    /\ clock < MaxClock
    /\ clock' = clock + 1
    /\ Called("Tick", 0, 0)
    /\ UNCHANGED <<minLevel, loggerLevel, loggers, entries, handed, output,
                   procState, exitCode, nAdds>>

----------------------------------------------------------------------------

LoggerIds == DOMAIN loggers
EntryIds == DOMAIN entries

(* Levels and thresholds: every threshold, every constructor, Level with    *)
(* every input, Entries built on the root Logger and flushed                *)

NextLevels ==
    \/ \E l \in LoggerIds, lvl \in LevelInputs : Level(l, lvl)
    \/ \E l \in LoggerIds : Debug(l)
    \/ \E l \in LoggerIds : Info(l)
    \/ \E l \in LoggerIds : Warn(l)
    \/ \E l \in LoggerIds : Error(l)
    \/ \E l \in LoggerIds : Fatal(l)
    \/ \E l \in LoggerIds : Panic(l)
    \/ \E e \in EntryIds : AddStr(e, "k", "a")
    \/ \E e \in EntryIds : AddErr(e, NilErr)
    \/ \E e \in EntryIds, msg \in Msgs : Flush(e, msg)

SpecLevels == Init /\ [][NextLevels]_vars

(* Fields: one caller builds one Entry on a Logger of a derivation chain,   *)
(* attaches fields with every Add* operation and flushes it once            *)

InitFields == Init /\ minLevel = InfoLevel

NextFields ==
    \/ \E key \in LoggerKeys, value \in LoggerVals :
          entries = <<>> /\ WithField(Len(loggers), key, value)
    \/ \E l \in LoggerIds : entries = <<>> /\ Debug(l)
    \/ \E l \in LoggerIds : entries = <<>> /\ Info(l)
    \/ \E e \in EntryIds, fs \in FieldMaps : AddFields(e, fs)
    \/ \E e \in EntryIds, err \in Errs : AddErr(e, err)
    \/ \E e \in EntryIds, key \in ErrKeys, val \in Errs : AddError(e, key, val)
    \/ \E e \in EntryIds : AddBool(e, "k", TRUE)
    \/ \E e \in EntryIds : AddInt(e, "n", 5)
    \/ \E e \in EntryIds, key \in Keys, val \in Strs : AddStr(e, key, val)
    \/ \E e \in EntryIds : AddTime(e, "k", clock)
    \/ \E e \in EntryIds : AddDur(e, "k", 3)
    \/ \E e \in EntryIds : AddAny(e, "k", NilVal)
    \/ \E e \in EntryIds : handed = <<>> /\ Flush(e, "started")

SpecFields == InitFields /\ [][NextFields]_vars

(* Sharing: callers derive Loggers, build Entries, attach and flush in any  *)
(* order                                                                    *)

InitSharing == Init /\ minLevel = InfoLevel

NextSharing ==
    \/ \E l \in LoggerIds, key \in LoggerKeys, value \in LoggerVals : WithField(l, key, value)
    \/ \E l \in LoggerIds : Info(l)
    \/ \E e \in EntryIds : AddStr(e, "k", "a")
    \/ \E e \in EntryIds : Flush(e, "started")

SpecSharing == InitSharing /\ [][NextSharing]_vars

(* Time: one Entry is built, written to and flushed while the clock advances *)

InitClock == Init /\ minLevel = InfoLevel

NextClock ==
    \/ \E l \in LoggerIds : entries = <<>> /\ Info(l)
    \/ \E e \in EntryIds, key \in Keys : AddStr(e, key, "a")
    \/ \E e \in EntryIds, key \in Keys, val \in 0..MaxClock : AddTime(e, key, val)
    \/ \E e \in EntryIds : Flush(e, "started")
    \/ Tick

SpecClock == InitClock /\ [][NextClock]_vars

----------------------------------------------------------------------------
(* What a record is expected to hold, from the calls that were made *)

\* the facade Level of the named constructor that built an Entry
CtorLevel(ctor) ==
    CASE ctor = "Debug" -> DebugLevel
      [] ctor = "Info" -> InfoLevel
      [] ctor = "Warn" -> WarnLevel
      [] ctor = "Error" -> ErrorLevel
      [] ctor = "Fatal" -> FatalLevel
      [] ctor = "Panic" -> PanicLevel

\* the backend severity of the named constructor's Level
CtorSeverity(ctor) ==
    CASE ctor = "Debug" -> logrus_DebugLevel
      [] ctor = "Info" -> logrus_InfoLevel
      [] ctor = "Warn" -> logrus_WarnLevel
      [] ctor = "Error" -> logrus_ErrorLevel
      [] ctor = "Fatal" -> logrus_FatalLevel
      [] ctor = "Panic" -> logrus_PanicLevel

\* the WithField calls on a Logger's derivation chain, oldest first
RECURSIVE ChainWrites(_)
ChainWrites(l) ==
    IF loggers[l].parent = 0
    THEN <<>>
    ELSE Append(ChainWrites(loggers[l].parent),
                <<loggers[l].key, StrVal(loggers[l].value)>>)

RECURSIVE MapWrites(_)
MapWrites(m) ==
    IF DOMAIN m = {}
    THEN <<>>
    ELSE LET k == CHOOSE x \in DOMAIN m : TRUE
         IN  << <<k, m[k]>> >> \o MapWrites([j \in DOMAIN m \ {k} |-> m[j]])

\* the key/value pairs one Add* call is meant to set, in order
CallWrites(c) ==
    CASE c.op = "AddFields" -> MapWrites(c.arg[2].m)
      [] c.op \in {"AddErr", "AddError"} ->
            << <<c.key, StrVal(c.arg[2].msg)>>,
               <<c.key \o "_stack", StrVal(ErrorStack(c.arg[2]))>> >>
      [] OTHER -> << <<c.key, c.arg>> >>

RECURSIVE Flatten(_)
Flatten(cs) ==
    IF Len(cs) = 0 THEN <<>> ELSE CallWrites(Head(cs)) \o Flatten(Tail(cs))

WrittenKeys(ws) == {ws[i][1] : i \in DOMAIN ws}

LastWrite(ws, k) ==
    LET i == CHOOSE x \in DOMAIN ws :
                 /\ ws[x][1] = k
                 /\ \A y \in DOMAIN ws : ws[y][1] = k => y <= x
    IN  ws[i][2]

\* every write an Entry has seen: its Logger's fields, the time stamp of its
\* construction, then its Add* calls
Writes(e) ==
    ChainWrites(entries[e].from)
        \o << <<"time", TimeVal(entries[e].t0)>> >>
        \o Flatten(entries[e].calls)

\* the keys an Entry built from Logger l starts with
FreshKeys(l) == WrittenKeys(ChainWrites(l)) \cup {"time"}

AtOrAbove(e) == CtorLevel(entries[e].ctor) >= minLevel

AddOps == {"AddFields", "AddErr", "AddError", "AddBool", "AddInt", "AddStr",
           "AddTime", "AddDur", "AddAny"}

\* the state right after a Flush call returned or ended the process
Flushed == last.op = "Flush" /\ Len(handed) > 0
Rec == handed[Len(handed)]

RecordsOf(e) == {i \in DOMAIN output : output[i].e = e}

----------------------------------------------------------------------------
(* Claims *)

\* C1: a Flush of an Entry built at Fatal level ends the process with a
\* non-zero status, whatever the threshold, and only together with the record
\* having been passed to the backend first; a Flush of an Entry of any other
\* level never exits the process, and nothing but a Flush does.
C1_FatalExitsAfterHandOver ==
    [][ /\ last'.op = "Flush" =>
              /\ Len(handed') = Len(handed) + 1
              /\ handed'[Len(handed')].e = last'.id
              /\ IF entries[last'.id].ctor = "Fatal"
                 THEN procState' = "exited" /\ exitCode' # 0
                 ELSE procState' # "exited"
        /\ (procState' = "exited" /\ procState # "exited") => last'.op = "Flush"
      ]_vars

\* a Fatal Entry with a field attached was flushed under threshold Panic: the
\* backend got the record, dropped it, and the process exited with status 1
C1_Witness ==
    /\ Flushed
    /\ procState = "exited"
    /\ exitCode = 1
    /\ minLevel = PanicLevel
    /\ entries[last.id].ctor = "Fatal"
    /\ Len(entries[last.id].calls) > 0
    /\ Rec.e = last.id
    /\ output = <<>>

\* C2: a Flush(msg) of an Entry at or above the threshold hands the backend
\* exactly one record, which is emitted: its level is that of the constructor
\* that built the Entry, its message is msg, and its keys are exactly the
\* Logger's persistent fields, "time" and the keys the Add* calls attached.
C2_FlushHandsExactlyTheRecord ==
    [][ last'.op = "Flush" =>
            LET e == last'.id
                r == handed'[Len(handed')]
            IN  /\ Len(handed') = Len(handed) + 1
                /\ SubSeq(handed', 1, Len(handed)) = handed
                /\ r.e = e
                /\ r.level = CtorSeverity(entries[e].ctor)
                /\ r.msg = last'.arg
                /\ DOMAIN r.data = FreshKeys(entries[e].from)
                                      \cup WrittenKeys(Flatten(entries[e].calls))
                /\ AtOrAbove(e) => output' = Append(output, r)
      ]_vars

\* the scenario NewLogger(buf, Info).WithField("svc","x").Info().AddInt("n",5)
\* .Flush("started"): one record with keys svc, time and n
C2_Witness ==
    /\ Flushed
    /\ Len(output) = 1
    /\ output[1] = Rec
    /\ Rec.level = logrus_InfoLevel
    /\ Rec.msg = "started"
    /\ DOMAIN Rec.data = {"svc", "time", "n"}
    /\ Rec.data["svc"] = StrVal("x")
    /\ Rec.data["n"] = IntVal(5)

\* C3: no record of an Entry built below the Logger's threshold reaches the
\* output, and every record of an Entry built at or above it that was handed
\* to the backend is in the output, for every threshold and every level.
C3_ThresholdSuppresses ==
    /\ \A i \in DOMAIN output : AtOrAbove(output[i].e)
    /\ \A i \in DOMAIN handed :
          AtOrAbove(handed[i].e) => \E j \in DOMAIN output : output[j] = handed[i]

\* NewLogger(buf, Warn).Debug().AddStr("k","a").Flush(..): nothing is emitted
C3_Witness ==
    /\ Flushed
    /\ minLevel = WarnLevel
    /\ entries[last.id].ctor = "Debug"
    /\ Len(entries[last.id].calls) > 0
    /\ output = <<>>

\* C4: no call changes a Logger that exists, and a WithField call changes no
\* Entry either: it adds one Logger whose fields are the receiver's with the
\* new field set. An Entry fresh from a Logger carries that Logger's fields
\* and "time" only.
C4_WithFieldLeavesReceiver ==
    [][ /\ \A l \in DOMAIN loggers : l \in DOMAIN loggers' /\ loggers'[l] = loggers[l]
        /\ last'.op = "WithField" =>
              LET p == loggers[last'.id]
                  n == loggers'[Len(loggers')]
              IN  /\ Len(loggers') = Len(loggers) + 1
                  /\ entries' = entries
                  /\ n.parent = last'.id
                  /\ DOMAIN n.writer = DOMAIN p.writer \cup {n.key}
                  /\ n.writer[n.key] = StrVal(n.value)
                  /\ \A k \in DOMAIN p.writer \ {n.key} : n.writer[k] = p.writer[k]
        /\ \A e \in DOMAIN entries :
              entries[e].calls = <<>> =>
                 DOMAIN entries[e].entry = FreshKeys(entries[e].from)
      ]_vars

\* root.WithField("svc", ..), an Entry built from that child, then
\* root.WithField("k", ..): neither the root, nor the sibling, nor the Entry
\* in flight carries "k"
C4_Witness ==
    /\ last.op = "WithField"
    /\ Len(loggers) = 3
    /\ loggers[2].parent = 1
    /\ loggers[3].parent = 1
    /\ loggers[2].key = "svc"
    /\ loggers[3].key = "k"
    /\ "k" \in DOMAIN loggers[3].writer
    /\ loggers[1].writer = EmptyMap
    /\ DOMAIN loggers[2].writer = {"svc"}
    /\ Len(entries) = 1
    /\ entries[1].from = 2
    /\ entries[1].calls = <<>>
    /\ DOMAIN entries[1].entry = {"svc", "time"}

\* C5: Level(level) returns, without failing, an Entry of the level the
\* matching named constructor gives, and an Info Entry for a value outside
\* the six Levels.
C5_LevelDispatch ==
    last.op = "Level" =>
        LET ent == entries[last.id]
        IN  /\ ~last.aborted
            /\ CASE last.arg = DebugLevel -> ent.level = lLog_Debug(ent.from).level
                 [] last.arg = InfoLevel -> ent.level = lLog_Info(ent.from).level
                 [] last.arg = WarnLevel -> ent.level = lLog_Warn(ent.from).level
                 [] last.arg = ErrorLevel -> ent.level = lLog_Error(ent.from).level
                 [] last.arg = FatalLevel -> ent.level = lLog_Fatal(ent.from).level
                 [] last.arg = PanicLevel -> ent.level = lLog_Panic(ent.from).level
                 [] OTHER -> /\ ent.level = logrus_InfoLevel
                             /\ ent.level # logrus_FatalLevel
                             /\ ent.ctor = "Info"

\* Level was called with a value outside the six and returned an Info Entry
C5_Witness ==
    /\ last.op = "Level"
    /\ last.arg \notin Levels
    /\ entries[last.id].level = logrus_InfoLevel

\* C6: no Add* call aborts, a nil error given to AddErr or AddError included.
C6_AddNeverAborts ==
    last.op \in AddOps => ~last.aborted

\* C7: every Entry, and every record flushed from it, has a "time" field
\* whose value is the clock reading of its construction, whatever keys the
\* Add* calls used.
C7_TimeIsConstructionTime ==
    /\ \A e \in EntryIds :
          /\ "time" \in DOMAIN entries[e].entry
          /\ entries[e].entry["time"] = TimeVal(entries[e].t0)
    /\ \A i \in DOMAIN handed :
          /\ "time" \in DOMAIN handed[i].data
          /\ handed[i].data["time"] = TimeVal(entries[handed[i].e].t0)

\* C8: the flushed record holds, for each of its keys, the value of the last
\* write of that key among the Logger's fields, the time stamp and the Add*
\* calls, in the order they were made.
C8_LastWriteWins ==
    Flushed =>
        LET ws == Writes(last.id)
        IN  \A k \in DOMAIN Rec.data :
               /\ k \in WrittenKeys(ws)
               /\ Rec.data[k] = LastWrite(ws, k)

\* WithField("k","x"), then AddStr("k","a"), AddStr("k","b") and Flush: k is "b"
C8_Witness ==
    /\ Flushed
    /\ loggers[entries[last.id].from].key = "k"
    /\ Len(entries[last.id].calls) = 2
    /\ entries[last.id].calls[1] = [op |-> "AddStr", key |-> "k", arg |-> StrVal("a")]
    /\ entries[last.id].calls[2] = [op |-> "AddStr", key |-> "k", arg |-> StrVal("b")]
    /\ Rec.data["k"] = StrVal("b")

\* C9: after AddErr(e) or AddError(key, e) with no later call on the two
\* keys, the flushed record holds the error's text under the key ("err" for
\* AddErr) and ErrorStack(e) under the key followed by "_stack", present also
\* when empty; AddError("err", e) leaves the fields AddErr(e) leaves.
C9_ErrorFields ==
    /\ Flushed =>
          LET cs == entries[last.id].calls
          IN  \A i \in DOMAIN cs :
                 ( /\ cs[i].op \in {"AddErr", "AddError"}
                   /\ \A j \in DOMAIN cs :
                         j > i => WrittenKeys(CallWrites(cs[j]))
                                     \cap {cs[i].key, cs[i].key \o "_stack"} = {} )
                 => /\ cs[i].key \in DOMAIN Rec.data
                    /\ Rec.data[cs[i].key] = StrVal(cs[i].arg[2].msg)
                    /\ (cs[i].key \o "_stack") \in DOMAIN Rec.data
                    /\ Rec.data[cs[i].key \o "_stack"] = StrVal(ErrorStack(cs[i].arg[2]))
                    /\ cs[i].op = "AddErr" => cs[i].key = "err"
    /\ \A e \in EntryIds : \A x \in Errs \ {NilErr} :
          lEntry_AddError(entries[e].entry, "err", x) = lEntry_AddErr(entries[e].entry, x)

\* AddErr of an error whose stack text is empty, then Flush: "err_stack" is ""
C9_Witness ==
    /\ Flushed
    /\ Len(entries[last.id].calls) = 1
    /\ entries[last.id].calls[1].op = "AddErr"
    /\ ErrorStack(entries[last.id].calls[1].arg[2]) = ""
    /\ "err_stack" \in DOMAIN Rec.data
    /\ Rec.data["err_stack"] = StrVal("")

\* C10: no Entry has more than one record in the output.
C10_OneRecordPerEntry ==
    \A e \in EntryIds : Cardinality(RecordsOf(e)) <= 1

====
